---- MODULE Spec2Model ----
(***************************************************************************)
(* Model of the Jackett plugin (plugins.v2/jackett/__init__.py): the       *)
(* plugin's configuration fields, init_plugin, the on-demand trigger       *)
(* endpoint and the retrying fetch client _fetch_jackett_indexers with its *)
(* session negotiation.  Network I/O is the environment: every HTTP call   *)
(* is one step whose outcome is chosen from the outcomes the requests      *)
(* library can produce.                                                    *)
(***************************************************************************)
EXTENDS Integers, Sequences, FiniteSets, TLC

VARIABLES
    enabled,      \* self._enabled
    host,         \* self._host
    api_key,      \* self._api_key
    password,     \* self._password
    last_config,  \* argument 'config' of the latest init_plugin call
    pc,           \* position of the running operation
    caller,       \* operation that started the running fetch
    l_host,       \* local 'host' of _fetch_jackett_indexers
    api_headers,  \* local 'api_headers' (its X-Api-Key entry)
    current_try,  \* local 'current_try'
    reqs,         \* HTTP requests issued by the running fetch, with outcome
    sleeps,       \* number of time.sleep calls of the running fetch
    ret,          \* value returned by _fetch_jackett_indexers
    api_code,     \* 'code' of the last api_trigger_log_configs answer
    cookies,      \* cookie jar of the requests.Session of the fetch
    idx,          \* position of the 'for raw_indexer in ...' loop
    all_config_lines, \* local 'all_config_lines'
    output_count, \* local 'output_count'
    formatted,    \* value of 'mp_config_json_object' in each pass so far
    log           \* the config block and its counts written to the log

\* the locals of log_jackett_indexer_configs and its log output
cycle_vars == <<idx, all_config_lines, output_count, formatted, log>>

vars == <<enabled, host, api_key, password, last_config, pc, caller, l_host, api_headers,
          current_try, reqs, sleeps, ret, api_code, cookies, idx,
          all_config_lines, output_count, formatted, log>>

-----------------------------------------------------------------------------
(* Bounds of the model *)

\* longest indexer list the service answers with
MaxRecords == 2

-----------------------------------------------------------------------------
(* Python values *)

PyNone == [t |-> "none"]
PyStr(s) == [t |-> "str", s |-> s]
PyInt(n) == [t |-> "int", n |-> n]
PyBool(b) == [t |-> "bool", b |-> b]
PyList(v) == [t |-> "list", v |-> v]
PyDict(d) == [t |-> "dict", d |-> d]

\* Python truth value testing ('if x', 'not x', 'x and y')
Truthy(x) ==
    CASE x.t = "none" -> FALSE
      [] x.t = "bool" -> x.b
      [] x.t = "str"  -> Len(x.s) > 0
      [] x.t = "int"  -> x.n # 0
      [] x.t = "list" -> Len(x.v) > 0
      [] x.t = "dict" -> DOMAIN x.d # {}

\* isinstance(x, list)
IsList(x) == x.t = "list"

RECURSIVE RstripChars(_, _)
\* str.rstrip(c) on a sequence of characters
RstripChars_One(s, c) ==
    IF Len(s) > 0 /\ s[Len(s)] = c THEN SubSeq(s, 1, Len(s) - 1) ELSE s

RstripChars(s, c) ==
    IF Len(s) > 0 /\ s[Len(s)] = c
    THEN RstripChars(SubSeq(s, 1, Len(s) - 1), c)
    ELSE s

-----------------------------------------------------------------------------
(* Configuration values *)

HostValues == {PyNone, PyStr(<<>>), PyStr(<<"h">>), PyStr(<<"h", "/", "/">>)}
ApiKeyValues == {PyNone, PyStr(<<>>), PyStr(<<"K">>)}
PasswordValues == {PyNone, PyStr(<<>>), PyStr(<<"p">>)}

\* marks a key that the config dict does not have
Absent == [t |-> "absent"]

\* the config argument of init_plugin: None, or a dict
Configs ==
    {PyNone} \cup
    { PyDict(c) : c \in [enabled  : {PyBool(TRUE), PyBool(FALSE), Absent},
                         host     : HostValues \cup {Absent},
                         api_key  : ApiKeyValues \cup {Absent},
                         password : PasswordValues \cup {Absent}] }

\* a config dict is falsy when it has no key at all
ConfigTruthy(config) ==
    /\ config # PyNone
    /\ \E k \in DOMAIN config.d : config.d[k] # Absent

\* no init_plugin call has been made
NoCall == [t |-> "no_call"]

\* dict.get(key, default)
ConfigGet_KeepsOld(config, key, default) ==
    IF config.d[key] # Absent
    THEN config.d[key]
    ELSE CASE key = "enabled" -> enabled
           [] key = "host" -> host
           [] key = "api_key" -> api_key
           [] key = "password" -> password

ConfigGet(config, key, default) ==
    IF config.d[key] = Absent THEN default ELSE config.d[key]

-----------------------------------------------------------------------------
(* Responses of the service *)

\* records of the indexer list
IndexerRecords ==
    { PyDict([id |-> PyStr(<<"a">>), name |-> PyStr(<<"A">>)]),
      PyDict([id |-> PyStr(<<"M", "-", "s">>), name |-> PyStr(<<"F">>)]),
      PyDict([name |-> PyStr(<<"X">>)]) }

\* non-empty lists of at most MaxRecords records
RecordLists ==
    UNION { [1..n -> IndexerRecords] : n \in 1..MaxRecords }

\* what response.json() gives: a parsed value, or a decoding error
JsonBodies ==
    { [parse |-> "ok", value |-> PyList(l)] : l \in RecordLists } \cup
    { [parse |-> "ok", value |-> v] :
        v \in { PyList(<<>>), PyDict([error |-> PyStr(<<"e">>)]),
                PyInt(7), PyStr(<<"s">>), PyNone } } \cup
    { [parse |-> "error"] }

\* bodies sent with another content type: a login page, or JSON text
OtherBodies ==
    { [parse |-> "error"] } \cup
    { [parse |-> "ok", value |-> PyList(<<r>>)] :
        r \in {PyDict([id |-> PyStr(<<"a">>), name |-> PyStr(<<"A">>)])} }

HtmlBody == [parse |-> "error"]

\* Content-Type header values; "" is the default of headers.get
ContentTypes == {"Application/JSON; charset=utf-8", "text/html", ""}

\* str.lower() on the header values above
LowerContentType(ct) ==
    IF ct = "Application/JSON; charset=utf-8"
    THEN "application/json; charset=utf-8"
    ELSE ct

\* 'application/json' in content_type
ContainsApplicationJson(ct) ==
    ct = "application/json; charset=utf-8"

StatusCodes == {200, 302, 401, 403, 404, 500}

Response(status, ctype, body) ==
    [kind |-> "response", status |-> status, ctype |-> ctype, body |-> body]

\* outcomes of session.get on the indexer list endpoint
IndexerOutcomes ==
    { Response(200, ct, b) :
        ct \in {c \in ContentTypes : ContainsApplicationJson(LowerContentType(c))},
        b \in JsonBodies } \cup
    { Response(200, ct, b) :
        ct \in {c \in ContentTypes : ~ContainsApplicationJson(LowerContentType(c))},
        b \in OtherBodies } \cup
    { Response(s, "text/html", HtmlBody) : s \in StatusCodes \ {200} } \cup
    { [kind |-> "timeout"],             \* requests.exceptions.Timeout
      [kind |-> "request_exception"],   \* other requests.exceptions.RequestException
      [kind |-> "exception"] }          \* an exception outside that hierarchy

\* outcomes of the login GET and of the warm-up GET
SessionOutcomes ==
    { [kind |-> "response"], [kind |-> "timeout"],
      [kind |-> "request_exception"], [kind |-> "exception"] }

\* outcomes of the login POST; final_login tells whether the URL the
\* redirect-followed request ended at has "UI/Login"
LoginPostOutcomes ==
    { [kind |-> "response", final_login |-> f] : f \in BOOLEAN } \cup
    { [kind |-> "timeout"], [kind |-> "request_exception"],
      [kind |-> "exception"] }

\* caught by 'except requests.exceptions.RequestException'
IsRequestException(o) == o.kind \in {"timeout", "request_exception"}

-----------------------------------------------------------------------------
(* State *)

NotReturned == [t |-> "not_returned"]
max_retries == 2

\* a request as sent: URL, X-Api-Key header, the cookies of the session
\* at that time, and what came back
Request(kind, url_host, path, key, jar, outcome) ==
    [kind |-> kind, url_host |-> url_host, path |-> path, key |-> key,
     cookies |-> jar, outcome |-> outcome]

Init ==
    /\ enabled = PyBool(FALSE)
    /\ host = PyNone
    /\ api_key = PyNone
    /\ password = PyNone
    /\ last_config = NoCall
    /\ pc = "idle"
    /\ caller = "none"
    /\ l_host = <<>>
    /\ api_headers = PyNone
    /\ current_try = 1
    /\ reqs = <<>>
    /\ sleeps = 0
    /\ ret = NotReturned
    /\ api_code = PyNone
    /\ cookies = {}
    /\ idx = 0
    /\ all_config_lines = <<>>
    /\ output_count = 0
    /\ formatted = <<>>
    /\ log = <<>>

\* no operation is running
Quiescent == pc = "idle"

\* the running operation has handed control back to the host
Ended ==
    \/ pc \in {"init_returned", "api_returned", "raised"}
    \/ pc = "fetch_returned" /\ caller = "fetch"

-----------------------------------------------------------------------------
(* _fetch_jackett_indexers *)

LoginPath == "/UI/Login"
DashboardPath == "/UI/Dashboard"
WarmUpPath == "/"
IndexerQueryPath == "/api/v2.0/indexers?configured=true"

\* 'if not self._host or not self._api_key'
ConfigMissing_HostOnly(h, k) == ~Truthy(h)

ConfigMissing(h, k) == ~Truthy(h) \/ ~Truthy(k)

\* nothing of log_jackett_indexer_configs has run
ResetCycle ==
    /\ idx' = 0
    /\ all_config_lines' = <<>>
    /\ output_count' = 0
    /\ formatted' = <<>>
    /\ log' = <<>>

\* 'with requests.Session() as session': the jar of a new session
NewSessionCookies_Reused == cookies

NewSessionCookies == {}

\* the session stores the cookies a response sets; the cookie is named
\* after the request that obtained it
SetCookies(kind, o) == IF o.kind = "response" THEN {kind} ELSE {}

\* entry of _fetch_jackett_indexers up to its first HTTP call, run with the
\* field values h, k, p: the configuration guard, the locals, the choice
\* between the login handshake and the warm-up request
FetchEntry(h, k, p) ==
    /\ ResetCycle
    /\ reqs' = <<>>
    /\ sleeps' = 0
    /\ current_try' = 1
    /\ IF ConfigMissing(h, k)
       THEN /\ ret' = PyList(<<>>)
            /\ pc' = "fetch_returned"
            /\ l_host' = <<>>
            /\ api_headers' = PyNone
            /\ UNCHANGED cookies
       ELSE /\ ret' = NotReturned
            /\ cookies' = NewSessionCookies
            /\ l_host' = RstripChars(h.s, "/")
            /\ api_headers' = k
            /\ pc' = IF Truthy(p) THEN "login_get" ELSE "warm_up"

\* a session request inside 'try ... except RequestException': the request
\* is recorded; an exception of another class leaves the function
SessionStep(kind, path, o, next) ==
    /\ reqs' = Append(reqs, Request(kind, l_host, path, PyNone, cookies, o))
    /\ cookies' = cookies \cup SetCookies(kind, o)
    /\ pc' = IF o.kind = "response" \/ IsRequestException(o)
             THEN next ELSE "raised"
    /\ UNCHANGED <<enabled, host, api_key, password, last_config, caller, l_host,
                   api_headers, current_try, sleeps, ret, api_code>>
    /\ UNCHANGED cycle_vars

\* session.get(login_url)
LoginGet(o) ==
    /\ pc = "login_get"
    /\ SessionStep("login_get", LoginPath, o, "login_post")

\* session.post(login_submission_url, data={"password": ...})
LoginPost(o) ==
    /\ pc = "login_post"
    /\ SessionStep("login_post", DashboardPath, o, "attempt")

\* session.get(warm_up_url)
WarmUp(o) ==
    /\ pc = "warm_up"
    /\ SessionStep("warm_up", WarmUpPath, o, "attempt")

Returns(v) == [returns |-> TRUE, value |-> v]
FallsThrough == [returns |-> FALSE]

\* "if 'application/json' in content_type" on the lower-cased header
IsJsonContentType(ctype) ==
    ContainsApplicationJson(LowerContentType(ctype))

\* the branch taken with the value of response.json()
HandleJson_NoListTest(indexers) ==
    IF Truthy(indexers)
    THEN Returns(indexers)
    ELSE Returns(PyList(<<>>))

HandleJson_Discards(indexers) ==
    Returns(PyList(<<>>))

HandleJson(indexers) ==
    IF Truthy(indexers) /\ IsList(indexers)
    THEN Returns(indexers)
    ELSE Returns(PyList(<<>>))

\* response.json() raises: no 'return' is reached, an 'except' clause of
\* the attempt logs the error
OnJsonError_Terminal == Returns(PyList(<<>>))

OnJsonError == FallsThrough

\* the 'elif' chain on a status other than 200
OnStatus_Only401(status) ==
    IF status = 302
    THEN FallsThrough
    ELSE IF status = 401
         THEN Returns(PyList(<<>>))
         ELSE FallsThrough

OnStatus_OthersTerminal(status) ==
    IF status = 302
    THEN FallsThrough
    ELSE IF status \in {401, 403}
         THEN Returns(PyList(<<>>))
         ELSE Returns(PyList(<<>>))

OnStatus(status) ==
    IF status = 302
    THEN FallsThrough
    ELSE IF status \in {401, 403}
         THEN Returns(PyList(<<>>))
         ELSE FallsThrough

\* the body of the 'try' of one attempt and its 'except' clauses: either
\* the function returns a value, or control reaches the retry bookkeeping
HandleAttempt(o) ==
    IF o.kind = "response"
    THEN IF o.status = 200
         THEN IF IsJsonContentType(o.ctype)
              THEN IF o.body.parse = "error"
                   THEN OnJsonError
                   ELSE HandleJson(o.body.value)
              ELSE FallsThrough
         ELSE OnStatus(o.status)
    ELSE FallsThrough                     \* Timeout, RequestException, Exception

\* 'while current_try <= max_retries'
LoopGuard_Short(try) == try < max_retries

LoopGuard_Long(try) == try <= max_retries + 1

LoopGuard(try) == try <= max_retries

\* 'if current_try < max_retries' before time.sleep
SleepGuard_Always(try) == try <= max_retries

SleepGuard(try) == try < max_retries

\* 'current_try += 1', then the loop test; leaving the loop returns []
NextIteration ==
    /\ current_try' = current_try + 1
    /\ IF LoopGuard(current_try + 1)
       THEN pc' = "attempt" /\ ret' = ret
       ELSE pc' = "fetch_returned" /\ ret' = PyList(<<>>)

\* one pass of the attempt loop up to its sleep
IndexerListAttempt(o) ==
    /\ pc = "attempt"
    /\ reqs' = Append(reqs, Request("indexers", l_host, IndexerQueryPath,
                                    api_headers, cookies, o))
    /\ cookies' = cookies \cup SetCookies("indexers", o)
    /\ IF HandleAttempt(o).returns
       THEN /\ ret' = HandleAttempt(o).value
            /\ pc' = "fetch_returned"
            /\ UNCHANGED current_try
       ELSE IF SleepGuard(current_try)
            THEN pc' = "sleep" /\ UNCHANGED <<ret, current_try>>
            ELSE NextIteration
    /\ UNCHANGED <<enabled, host, api_key, password, last_config, caller, l_host,
                   api_headers, sleeps, api_code>>
    /\ UNCHANGED cycle_vars

\* time.sleep(retry_interval) and the rest of the pass
RetrySleep ==
    /\ pc = "sleep"
    /\ sleeps' = sleeps + 1
    /\ NextIteration
    /\ UNCHANGED <<enabled, host, api_key, password, last_config, caller, l_host,
                   api_headers, reqs, api_code, cookies>>
    /\ UNCHANGED cycle_vars

\* a direct call of _fetch_jackett_indexers
CallFetch ==
    /\ Quiescent
    /\ caller' = "fetch"
    /\ FetchEntry(host, api_key, password)
    /\ UNCHANGED <<enabled, host, api_key, password, last_config, api_code>>

-----------------------------------------------------------------------------
(* Text: a str is a sequence of characters, a bytes object a sequence of   *)
(* numbers 0..255.  A character outside ASCII is written by its code point *)
(* name.                                                                   *)

\* the printable ASCII characters, in code order from 32 (code 96 by name)
PrintableAscii ==
    <<" ", "!", "\"", "#", "$", "%", "&", "'", "(", ")", "*", "+", ",",
      "-", ".", "/", "0", "1", "2", "3", "4", "5", "6", "7", "8", "9", ":",
      ";", "<", "=", ">", "?", "@", "A", "B", "C", "D", "E", "F", "G", "H",
      "I", "J", "K", "L", "M", "N", "O", "P", "Q", "R", "S", "T", "U", "V",
      "W", "X", "Y", "Z", "[", "\\", "]", "^", "_", "U+0060", "a", "b", "c",
      "d", "e", "f", "g", "h", "i", "j", "k", "l", "m", "n", "o", "p", "q",
      "r", "s", "t", "u", "v", "w", "x", "y", "z", "{", "|", "}", "~">>

EAcute == "U+00E9"
CapitalEAcute == "U+00C9"

\* ord(c) of a printable ASCII character
AsciiCode(c) == 31 + (CHOOSE i \in 1..Len(PrintableAscii) : PrintableAscii[i] = c)

IsAscii(c) == \E i \in 1..Len(PrintableAscii) : PrintableAscii[i] = c

\* str.lower() on one character
LowerChar(c) ==
    IF c = CapitalEAcute
    THEN EAcute
    ELSE IF IsAscii(c) /\ AsciiCode(c) >= 65 /\ AsciiCode(c) <= 90
         THEN PrintableAscii[AsciiCode(c) + 32 - 31]
         ELSE c

\* str.lower()
LowerChars(s) == [i \in 1..Len(s) |-> LowerChar(s[i])]

\* str.replace(old, new) for one-character old and new
ReplaceChar(s, old, new) ==
    [i \in 1..Len(s) |-> IF s[i] = old THEN new ELSE s[i]]

-----------------------------------------------------------------------------
(* _format_indexer_for_moviepilot *)

JackettPrefix ==
    <<"j", "a", "c", "k", "e", "t", "t", "_">>
NameTag ==
    <<"[", "J", "a", "c", "k", "e", "t", "t", "]", " ">>
SearchPathHead ==
    <<"/", "a", "p", "i", "/", "v", "2", ".", "0", "/", "i", "n", "d", "e",
      "x", "e", "r", "s", "/">>
SearchPathTail ==
    <<"/", "r", "e", "s", "u", "l", "t", "s", "/", "t", "o", "r", "z", "n",
      "a", "b">>

\* dict.get(key, "") on a record of the indexer list
RecordGet(rec, key) ==
    IF key \in DOMAIN rec.d THEN rec.d[key] ELSE PyStr(<<>>)

\* 'if not indexer_id_from_jackett or not indexer_name_from_jackett'
IsIncomplete_NeedsBothMissing(id, name) == ~Truthy(id) /\ ~Truthy(name)

IsIncomplete(id, name) == ~Truthy(id) \/ ~Truthy(name)

\* f"jackett_{indexer_id_from_jackett.lower().replace('-', '_')}"
InternalId_NoLower(id) == JackettPrefix \o ReplaceChar(id, "-", "_")

InternalId_NoReplace(id) == JackettPrefix \o LowerChars(id)

InternalId(id) == JackettPrefix \o ReplaceChar(LowerChars(id), "-", "_")

\* f"/api/v2.0/indexers/{indexer_id_from_jackett}/results/torznab"
SearchPath_Normalised(id) ==
    SearchPathHead \o ReplaceChar(LowerChars(id), "-", "_") \o SearchPathTail

SearchPath(id) == SearchPathHead \o id \o SearchPathTail

\* the 'categories' dict: category ids and descriptions for movie and tv
Categories ==
    [movie |-> <<"2000 Movies", "2010 Movies/Foreign", "2020 Movies/BluRay",
                 "2030 Movies/DVD", "2040 Movies/HD", "2045 Movies/UHD",
                 "2050 Movies/3D", "2060 Movies/SD">>,
     tv    |-> <<"5000 TV", "5020 TV/Blu-ray", "5030 TV/DVD", "5040 TV/HD",
                 "5050 TV/SD", "5060 TV/Foreign", "5070 TV/Sport">>]

\* the 'torrents' parsing rules: list selector and field selectors
TorrentRules ==
    [list   |-> "item",
     fields |-> [title |-> "title", details |-> "guid", download |-> "link",
                 size |-> "size", date_added |-> "pubDate",
                 seeders |-> "torznab:attr[name=seeders]",
                 leechers |-> "torznab:attr[name=peers]",
                 downloadvolumefactor |-> "0",
                 uploadvolumefactor |-> "1"]]

\* actual_jackett_host = self._host.rstrip('/')
ActualJackettHost_Raw(h) == h.s

ActualJackettHost(h) == RstripChars(h.s, "/")

\* the mp_indexer_config_json dict built for source id and name (both str)
\* under the field values h (self._host, a str) and k (self._api_key, a str
\* or None)
ConfigJson(id, name, h, k) ==
    [id       |-> InternalId(id),
     name     |-> NameTag \o name,
     domain   |-> ActualJackettHost(h),
     url      |-> ActualJackettHost(h),
     encoding |-> "UTF-8",
     public   |-> TRUE,
     proxy    |-> TRUE,
     language |-> "zh_CN",
     category |-> Categories,
     search   |-> [paths  |-> <<[path |-> SearchPath(id), method |-> "get"]>>,
                   params |-> [t |-> "search", q |-> "{keyword}",
                               cat |-> "{cat}", apikey |-> k]],
     torrents |-> TorrentRules]

\* an AttributeError inside the 'try' of the formatter: .lower() of an id
\* that is not a str, .rstrip() of a host that is not a str
FormatterRaises(id, h) == id.t # "str" \/ h.t # "str"

\* _format_indexer_for_moviepilot(rec) for a dict rec: the config dict, or
\* None when the record is incomplete or the 'try' body raised
FormatIndexer(rec, h, k) ==
    LET id   == RecordGet(rec, "id")
        name == RecordGet(rec, "name")
    IN IF IsIncomplete(id, name)
       THEN PyNone
       ELSE IF FormatterRaises(id, h)
            THEN PyNone
            ELSE PyDict(ConfigJson(id.s, name.s, h, k))

-----------------------------------------------------------------------------
(* json.dumps(..., ensure_ascii=False), str.encode('utf-8'), b64encode *)

\* the fixed ASCII runs of the serialised config dict, each written as one
\* symbol: the text between two of the strings that vary with the record
JsonRuns ==
    << "{\"id\": ",
       ", \"name\": ",
       ", \"domain\": ",
       ", \"url\": ",
       ", \"encoding\": ... \"search\": {\"paths\": [{\"path\": ",
       ", \"method\": \"get\"}], \"params\": {... \"apikey\": ",
       "}}, \"torrents\": {...}}" >>

IsJsonRun(c) == \E i \in 1..Len(JsonRuns) : JsonRuns[i] = c

RECURSIVE JsonEscape(_)
\* the escaping of json.dumps inside a string: '"' and '\' get a backslash,
\* a character outside ASCII is kept as it is
JsonEscape_NoEscape(s) == s

JsonEscape(s) ==
    IF s = <<>>
    THEN <<>>
    ELSE (IF Head(s) \in {"\"", "\\"} THEN <<"\\", Head(s)>> ELSE <<Head(s)>>)
         \o JsonEscape(Tail(s))

\* a str as JSON text
JsonString(s) == <<"\"">> \o JsonEscape(s) \o <<"\"">>

\* a str or None as JSON text
JsonValue(v) ==
    IF v.t = "none" THEN <<"n", "u", "l", "l">> ELSE JsonString(v.s)

\* json.dumps(mp_config_json_object, ensure_ascii=False, indent=None)
JsonDumps(cfg) ==
    <<JsonRuns[1]>> \o JsonString(cfg.id)
    \o <<JsonRuns[2]>> \o JsonString(cfg.name)
    \o <<JsonRuns[3]>> \o JsonString(cfg.domain)
    \o <<JsonRuns[4]>> \o JsonString(cfg.url)
    \o <<JsonRuns[5]>> \o JsonString(cfg.search.paths[1].path)
    \o <<JsonRuns[6]>> \o JsonValue(cfg.search.params.apikey)
    \o <<JsonRuns[7]>>

\* the UTF-8 bytes of one character; a fixed run stands as one byte below 32
Utf8OfChar_AsciiReplace(c) ==
    IF IsJsonRun(c)
    THEN <<CHOOSE i \in 1..Len(JsonRuns) : JsonRuns[i] = c>>
    ELSE IF IsAscii(c) THEN <<AsciiCode(c)>> ELSE <<63>>

Utf8OfChar(c) ==
    IF IsJsonRun(c)
    THEN <<CHOOSE i \in 1..Len(JsonRuns) : JsonRuns[i] = c>>
    ELSE IF c = EAcute
         THEN <<195, 169>>
         ELSE IF c = CapitalEAcute
              THEN <<195, 137>>
              ELSE <<AsciiCode(c)>>

RECURSIVE Utf8Encode(_)
\* str.encode('utf-8')
Utf8Encode(s) ==
    IF s = <<>> THEN <<>> ELSE Utf8OfChar(Head(s)) \o Utf8Encode(Tail(s))

Base64Alphabet ==
    <<"A", "B", "C", "D", "E", "F", "G", "H", "I", "J", "K", "L", "M", "N",
      "O", "P", "Q", "R", "S", "T", "U", "V", "W", "X", "Y", "Z", "a", "b",
      "c", "d", "e", "f", "g", "h", "i", "j", "k", "l", "m", "n", "o", "p",
      "q", "r", "s", "t", "u", "v", "w", "x", "y", "z", "0", "1", "2", "3",
      "4", "5", "6", "7", "8", "9", "+", "/">>

Base64Digit(n) == Base64Alphabet[n + 1]

RECURSIVE Base64Encode(_)
\* base64.b64encode(bytes).decode('utf-8')
Base64Encode(b) ==
    IF Len(b) = 0
    THEN <<>>
    ELSE IF Len(b) = 1
         THEN << Base64Digit(b[1] \div 4), Base64Digit((b[1] % 4) * 16),
                 "=", "=" >>
         ELSE IF Len(b) = 2
              THEN << Base64Digit(b[1] \div 4),
                      Base64Digit((b[1] % 4) * 16 + b[2] \div 16),
                      Base64Digit((b[2] % 16) * 4), "=" >>
              ELSE << Base64Digit(b[1] \div 4),
                      Base64Digit((b[1] % 4) * 16 + b[2] \div 16),
                      Base64Digit((b[2] % 16) * 4 + b[3] \div 64),
                      Base64Digit(b[3] % 64) >>
                   \o Base64Encode(SubSeq(b, 4, Len(b)))

\* f"{domain_part_for_custom_indexer}|{base64_encoded_json}"
ConfigLine_NameFirst(cfg) ==
    cfg.name \o <<"|">> \o Base64Encode(Utf8Encode(JsonDumps(cfg)))

ConfigLine(cfg) ==
    cfg.id \o <<"|">> \o Base64Encode(Utf8Encode(JsonDumps(cfg)))

-----------------------------------------------------------------------------
(* init_plugin, api_trigger_log_configs, log_jackett_indexer_configs *)

\* an operation that starts no fetch issues no request
NoFetch(who) ==
    /\ ResetCycle
    /\ UNCHANGED cookies
    /\ pc' = who \o "_returned"
    /\ caller' = who
    /\ reqs' = <<>>
    /\ sleeps' = 0
    /\ current_try' = 1
    /\ l_host' = <<>>
    /\ api_headers' = PyNone
    /\ ret' = NotReturned

\* 'if self._enabled and self._host and self._api_key'
CycleGuard_IgnoresEnabled(e, h, k) == Truthy(h) /\ Truthy(k)

CycleGuard(e, h, k) == Truthy(e) /\ Truthy(h) /\ Truthy(k)

InitPlugin(config) ==
    /\ Quiescent
    /\ LET e == IF ConfigTruthy(config)
                THEN ConfigGet(config, "enabled", PyBool(FALSE))
                ELSE PyBool(FALSE)
           h == IF ConfigTruthy(config)
                THEN ConfigGet(config, "host", PyNone) ELSE PyNone
           k == IF ConfigTruthy(config)
                THEN ConfigGet(config, "api_key", PyNone) ELSE PyNone
           p == IF ConfigTruthy(config)
                THEN ConfigGet(config, "password", PyNone) ELSE PyNone
       IN /\ enabled' = e
          /\ host' = h
          /\ api_key' = k
          /\ password' = p
          /\ IF CycleGuard(e, h, k)
             THEN caller' = "init" /\ FetchEntry(h, k, p)
             ELSE NoFetch("init")
    /\ last_config' = config
    /\ UNCHANGED api_code

ApiTriggerLogConfigs_NoEnabledCheck ==
    /\ Quiescent
    /\ IF ~Truthy(host) \/ ~Truthy(api_key)
       THEN api_code' = PyInt(1) /\ NoFetch("api")
       ELSE /\ api_code' = PyNone
            /\ caller' = "api"
            /\ FetchEntry(host, api_key, password)
    /\ UNCHANGED <<enabled, host, api_key, password, last_config>>

ApiTriggerLogConfigs ==
    /\ Quiescent
    /\ IF ~Truthy(enabled)
       THEN api_code' = PyInt(1) /\ NoFetch("api")
       ELSE IF ~Truthy(host) \/ ~Truthy(api_key)
            THEN api_code' = PyInt(1) /\ NoFetch("api")
            ELSE /\ api_code' = PyNone
                 /\ caller' = "api"
                 /\ FetchEntry(host, api_key, password)
    /\ UNCHANGED <<enabled, host, api_key, password, last_config>>

\* get_state()
GetState == enabled

\* log_jackett_indexer_configs returns to init_plugin or to the trigger
\* endpoint, which answers code 0 after it
ReturnToCaller_CodeByResult ==
    /\ pc' = caller \o "_returned"
    /\ api_code' = IF caller = "api"
                   THEN (IF all_config_lines # <<>> THEN PyInt(0) ELSE PyInt(1))
                   ELSE api_code

ReturnToCaller ==
    /\ pc' = caller \o "_returned"
    /\ api_code' = IF caller = "api" THEN PyInt(0) ELSE api_code

\* 'if not raw_jackett_indexers': warn and return
LogConfigsReturn ==
    /\ pc = "fetch_returned"
    /\ caller \in {"init", "api"}
    /\ ~Truthy(ret)
    /\ ReturnToCaller
    /\ UNCHANGED <<enabled, host, api_key, password, last_config, caller, l_host,
                   api_headers, current_try, reqs, sleeps, ret, cookies>>
    /\ UNCHANGED cycle_vars

\* the fetch gave a non-empty list: the locals of the formatting loop
LogConfigsStart ==
    /\ pc = "fetch_returned"
    /\ caller \in {"init", "api"}
    /\ Truthy(ret)
    /\ pc' = "format"
    /\ idx' = 1
    /\ all_config_lines' = <<>>
    /\ output_count' = 0
    /\ formatted' = <<>>
    /\ UNCHANGED <<enabled, host, api_key, password, last_config, caller, l_host,
                   api_headers, current_try, reqs, sleeps, ret, api_code,
                   cookies, log>>

\* raw_indexer.get("name", "N/A") on an element that is not a dict raises
\* AttributeError outside any 'try'
HasGet(raw) == raw.t = "dict"

\* one pass of 'for raw_indexer in raw_jackett_indexers'; the formatter
\* reads self._host and self._api_key
FormatRecord ==
    /\ pc = "format"
    /\ LET raw == ret.v[idx]
       IN IF ~HasGet(raw)
          THEN /\ pc' = "raised"
               /\ UNCHANGED <<idx, all_config_lines, output_count, formatted>>
          ELSE LET mp_config_json_object == FormatIndexer(raw, host, api_key)
               IN /\ formatted' = Append(formatted, mp_config_json_object)
                  /\ IF Truthy(mp_config_json_object)
                     THEN /\ all_config_lines' =
                                Append(all_config_lines,
                                       ConfigLine(mp_config_json_object.d))
                          /\ output_count' = output_count + 1
                     ELSE UNCHANGED <<all_config_lines, output_count>>
                  /\ idx' = idx + 1
                  /\ pc' = IF idx + 1 <= Len(ret.v) THEN "format" ELSE "log_block"
    /\ UNCHANGED <<enabled, host, api_key, password, last_config, caller, l_host,
                   api_headers, current_try, reqs, sleeps, ret, api_code,
                   cookies, log>>

LogEntry(kind, text) == [kind |-> kind, text |-> text]

\* the lines logged when all_config_lines is not empty: the header with the
\* count, the start marker, every line, the end marker, the total
ConfigBlock_EndFirst(lines, count) ==
    << LogEntry("header", <<count>>), LogEntry("end", <<>>) >>
    \o [i \in 1..Len(lines) |-> LogEntry("line", lines[i])]
    \o << LogEntry("start", <<>>), LogEntry("total", <<count>>) >>

ConfigBlock(lines, count) ==
    << LogEntry("header", <<count>>), LogEntry("start", <<>>) >>
    \o [i \in 1..Len(lines) |-> LogEntry("line", lines[i])]
    \o << LogEntry("end", <<>>), LogEntry("total", <<count>>) >>

\* 'if all_config_lines: ... else: warn', then the return to the caller
LogBlock ==
    /\ pc = "log_block"
    /\ log' = IF all_config_lines # <<>>
              THEN ConfigBlock(all_config_lines, output_count)
              ELSE <<>>
    /\ ReturnToCaller
    /\ UNCHANGED <<enabled, host, api_key, password, last_config, caller, l_host,
                   api_headers, current_try, reqs, sleeps, ret, cookies, idx,
                   all_config_lines, output_count, formatted>>

\* control is back in the host: the locals of the operation are gone
OperationEnd ==
    /\ Ended
    /\ pc' = "idle"
    /\ caller' = "none"
    /\ l_host' = <<>>
    /\ api_headers' = PyNone
    /\ current_try' = 1
    /\ reqs' = <<>>
    /\ sleeps' = 0
    /\ ret' = NotReturned
    /\ api_code' = PyNone
    /\ ResetCycle
    /\ UNCHANGED <<enabled, host, api_key, password, last_config, cookies>>

-----------------------------------------------------------------------------

Next ==
    \/ \E config \in Configs : InitPlugin(config)
    \/ ApiTriggerLogConfigs
    \/ CallFetch
    \/ \E o \in SessionOutcomes : LoginGet(o)
    \/ \E o \in LoginPostOutcomes : LoginPost(o)
    \/ \E o \in SessionOutcomes : WarmUp(o)
    \/ \E o \in IndexerOutcomes : IndexerListAttempt(o)
    \/ RetrySleep
    \/ LogConfigsReturn
    \/ LogConfigsStart
    \/ FormatRecord
    \/ LogBlock
    \/ OperationEnd

Spec == Init /\ [][Next]_vars


\* the fetch steps run to completion once started: every HTTP call and
\* every sleep returns, and the code is synchronous
FetchStep ==
    \/ \E o \in SessionOutcomes : LoginGet(o)
    \/ \E o \in LoginPostOutcomes : LoginPost(o)
    \/ \E o \in SessionOutcomes : WarmUp(o)
    \/ \E o \in IndexerOutcomes : IndexerListAttempt(o)
    \/ RetrySleep

FairSpec == Spec /\ WF_vars(FetchStep)

-----------------------------------------------------------------------------
(* The formatting loop on the lists a service can answer with *)

\* elements of an indexer list: complete records, records lacking id or
\* name, an id that is not a str, an element that is not an object
BatchElements ==
    { PyDict([id |-> PyStr(<<"a">>), name |-> PyStr(<<"A">>)]),
      PyDict([id |-> PyStr(<<"M", "y", "-", "S", "i", "t", "e">>),
              name |-> PyStr(<<"F", "o", "o">>)]),
      PyDict([id |-> PyStr(<<"m", "y", "_", "s", "i", "t", "e">>),
              name |-> PyStr(<<"C", "a", "f", EAcute>>)]),
      PyDict([id |-> PyStr(<<CapitalEAcute>>), name |-> PyStr(<<"\"", "\\">>)]),
      PyDict([id |-> PyStr(<<"a", "|", "b">>), name |-> PyStr(<<"|">>)]),
      PyDict([name |-> PyStr(<<"X">>)]),
      PyDict([id |-> PyStr(<<"a">>), name |-> PyStr(<<>>)]),
      PyDict([id |-> PyInt(7), name |-> PyStr(<<"A">>)]),
      PyStr(<<"s">>) }

BatchLists == UNION { [1..n -> BatchElements] : n \in 1..MaxRecords }

\* _fetch_jackett_indexers has just returned the list of its first attempt
\* to log_jackett_indexer_configs, called by init_plugin or by the trigger
InitBatch ==
    /\ enabled = PyBool(TRUE)
    /\ host \in {h \in HostValues : Truthy(h)}
    /\ api_key \in {k \in ApiKeyValues : Truthy(k)}
    /\ password = PyNone
    /\ last_config = PyDict([enabled |-> enabled, host |-> host,
                             api_key |-> api_key, password |-> Absent])
    /\ pc = "fetch_returned"
    /\ caller \in {"init", "api"}
    /\ l_host = RstripChars(host.s, "/")
    /\ api_headers = api_key
    /\ current_try = 1
    /\ ret \in { PyList(l) : l \in BatchLists }
    /\ reqs = << Request("warm_up", l_host, WarmUpPath, PyNone, {},
                         [kind |-> "response"]),
                 Request("indexers", l_host, IndexerQueryPath, api_headers,
                         {"warm_up"},
                         Response(200, "Application/JSON; charset=utf-8",
                                  [parse |-> "ok", value |-> ret])) >>
    /\ sleeps = 0
    /\ api_code = PyNone
    /\ cookies = {"warm_up", "indexers"}
    /\ idx = 0
    /\ all_config_lines = <<>>
    /\ output_count = 0
    /\ formatted = <<>>
    /\ log = <<>>

NextBatch ==
    \/ LogConfigsStart
    \/ FormatRecord
    \/ LogBlock
    \/ OperationEnd

BatchSpec == InitBatch /\ [][NextBatch]_vars

-----------------------------------------------------------------------------
(* init_plugin called on another thread while a cycle runs: the plugin    *)
(* holds no lock, so its four assignments fall between any two steps      *)

\* a fetch+format cycle is between its start and its end
CycleRunning ==
    pc \in {"login_get", "login_post", "warm_up", "attempt", "sleep",
            "fetch_returned", "format", "log_block"}

\* configs of the concurrent call, none of which starts a cycle of its own
ConcConfigs ==
    { PyDict([enabled |-> PyBool(FALSE), host |-> PyStr(<<"h", "/", "/">>),
              api_key |-> PyStr(<<"K">>), password |-> Absent]),
      PyDict([enabled |-> PyBool(TRUE), host |-> PyStr(<<"h">>),
              api_key |-> PyStr(<<>>), password |-> PyStr(<<"p">>)]),
      PyDict([enabled |-> PyBool(TRUE), host |-> Absent,
              api_key |-> PyStr(<<"K">>), password |-> Absent]) }

\* init_plugin(config) on another thread: the assignments, the guard that
\* fails, the return
ConcInitPlugin(config) ==
    /\ CycleRunning
    /\ LET e == ConfigGet(config, "enabled", PyBool(FALSE))
           h == ConfigGet(config, "host", PyNone)
           k == ConfigGet(config, "api_key", PyNone)
           p == ConfigGet(config, "password", PyNone)
       IN /\ ~(Truthy(e) /\ Truthy(h) /\ Truthy(k))
          /\ enabled' = e
          /\ host' = h
          /\ api_key' = k
          /\ password' = p
    /\ last_config' = config
    /\ UNCHANGED <<pc, caller, l_host, api_headers, current_try, reqs, sleeps,
                   ret, api_code, cookies>>
    /\ UNCHANGED cycle_vars

\* the outcomes of the indexer-list request the interleavings are run on
ConcOutcomes ==
    { [kind |-> "timeout"],
      Response(401, "text/html", HtmlBody),
      Response(200, "Application/JSON; charset=utf-8",
               [parse |-> "ok",
                value |-> PyList(<< PyDict([id |-> PyStr(<<"a">>),
                                            name |-> PyStr(<<"A">>)]),
                                    PyDict([id |-> PyStr(<<"M", "-", "s">>),
                                            name |-> PyStr(<<"F">>)]) >>)]) }

InitConfigured ==
    /\ enabled = PyBool(TRUE)
    /\ host = PyStr(<<"h">>)
    /\ api_key = PyStr(<<"K">>)
    /\ password \in {PyNone, PyStr(<<"p">>)}
    /\ last_config = PyDict([enabled |-> enabled, host |-> host,
                             api_key |-> api_key, password |-> password])
    /\ pc = "idle"
    /\ caller = "none"
    /\ l_host = <<>>
    /\ api_headers = PyNone
    /\ current_try = 1
    /\ reqs = <<>>
    /\ sleeps = 0
    /\ ret = NotReturned
    /\ api_code = PyNone
    /\ cookies = {}
    /\ idx = 0
    /\ all_config_lines = <<>>
    /\ output_count = 0
    /\ formatted = <<>>
    /\ log = <<>>

NextConc ==
    \/ ApiTriggerLogConfigs
    \/ \E config \in ConcConfigs : ConcInitPlugin(config)
    \/ LoginGet([kind |-> "response"])
    \/ LoginPost([kind |-> "response", final_login |-> FALSE])
    \/ WarmUp([kind |-> "response"])
    \/ \E o \in ConcOutcomes : IndexerListAttempt(o)
    \/ RetrySleep
    \/ LogConfigsReturn
    \/ LogConfigsStart
    \/ FormatRecord
    \/ LogBlock
    \/ OperationEnd

ConcSpec == InitConfigured /\ [][NextConc]_vars

-----------------------------------------------------------------------------
(* Vocabulary of the properties *)

\* the indexer-list requests of the running fetch, in order
Attempts == SelectSeq(reqs, LAMBDA r : r.kind = "indexers")

EmptyList == PyList(<<>>)

\* the fetch has returned a value to its caller
FetchReturned == ret # NotReturned

\* the running fetch is between two attempts
RetryPending == pc \in {"sleep", "attempt"}

JsonHeader == "Application/JSON; charset=utf-8"

HasStatus(o, codes) == o.kind = "response" /\ o.status \in codes
IsTimeout(o) == o.kind = "timeout"
IsNetworkException(o) == o.kind = "request_exception"
IsOtherException(o) == o.kind = "exception"
IsNonJson200(o) == HasStatus(o, {200}) /\ o.ctype # JsonHeader
IsJson200(o) == HasStatus(o, {200}) /\ o.ctype = JsonHeader
IsMalformedJson(o) == IsJson200(o) /\ o.body.parse = "error"
IsParsedJson(o) == IsJson200(o) /\ o.body.parse = "ok"
IsRecordList(o) ==
    /\ IsParsedJson(o)
    /\ o.body.value.t = "list"
    /\ o.body.value.v # <<>>
IsEmptyOrNonList(o) == IsParsedJson(o) /\ ~IsRecordList(o)

\* the three retried outcomes the specification names
IsSpecRetryable(o) == IsTimeout(o) \/ IsNetworkException(o) \/ IsNonJson200(o)

-----------------------------------------------------------------------------
(* C1 *)

\* C1: when _fetch_jackett_indexers is called while the host or the API key
\* is missing or empty, it returns the empty list at once, having issued no
\* HTTP request of any kind and without sleeping.
C1_NoIoWithoutConfig ==
    (caller = "fetch" /\ (~Truthy(host) \/ ~Truthy(api_key)))
        => /\ pc = "fetch_returned"
           /\ ret = EmptyList
           /\ reqs = <<>>
           /\ sleeps = 0

C1_Witness ==
    /\ caller = "fetch"
    /\ pc = "fetch_returned"
    /\ host = PyStr(<<"h">>)
    /\ api_key = PyStr(<<>>)
    /\ ret = EmptyList

-----------------------------------------------------------------------------
(* C2 *)

\* C2: an indexer-list attempt answered with HTTP 401 or 403 is the last
\* request of the fetch: the fetch has returned the empty list, no sleep
\* follows the response, and a 401 on the first attempt leaves exactly one
\* indexer-list request.
C2_AuthFailureIsTerminal ==
    \A j \in 1..Len(Attempts) :
        HasStatus(Attempts[j].outcome, {401, 403})
            => /\ j = Len(Attempts)
               /\ ret = EmptyList
               /\ ~RetryPending
               /\ sleeps = j - 1
               /\ reqs[Len(reqs)] = Attempts[j]

C2_Witness ==
    /\ Len(Attempts) = 2
    /\ HasStatus(Attempts[2].outcome, {403})
    /\ ret = EmptyList

-----------------------------------------------------------------------------
(* C3 *)

\* C3: when an attempt that is not the last allowed one times out and the
\* next attempt is answered 200 with a JSON content type and a non-empty
\* JSON list, the fetch returns exactly that list.
C3_TimeoutThenSuccess ==
    \A j \in 1..Len(Attempts) :
        ( /\ j < max_retries
          /\ j < Len(Attempts)
          /\ IsTimeout(Attempts[j].outcome)
          /\ IsRecordList(Attempts[j + 1].outcome) )
            => ret = Attempts[j + 1].outcome.body.value

C3_Witness ==
    /\ Len(Attempts) = 2
    /\ IsTimeout(Attempts[1].outcome)
    /\ IsRecordList(Attempts[2].outcome)
    /\ Len(ret.v) = 2
    /\ ret.v[1] # ret.v[2]

-----------------------------------------------------------------------------
(* C4 *)

\* C4: while every indexer-list attempt so far was answered 200 with a
\* content type that does not indicate JSON, no body is returned as a
\* result: before the last allowed attempt the fetch has not returned, and
\* after exactly max_retries such attempts it has returned the empty list.
C4_NonJsonRetriedThenEmpty ==
    ( /\ Attempts # <<>>
      /\ \A j \in 1..Len(Attempts) : IsNonJson200(Attempts[j].outcome) )
        => IF Len(Attempts) < max_retries
           THEN ~FetchReturned /\ RetryPending
           ELSE Len(Attempts) = max_retries /\ ret = EmptyList

C4_Witness ==
    /\ Len(Attempts) = max_retries
    /\ \A j \in 1..Len(Attempts) :
          /\ IsNonJson200(Attempts[j].outcome)
          /\ Attempts[j].outcome.body.parse = "ok"
    /\ ret = EmptyList

-----------------------------------------------------------------------------
(* C5 *)

\* C5 as stated: an attempt answered 200 with a JSON content type and a
\* body that does not parse is the last indexer-list request of the fetch.
C5_MalformedJsonIsTerminal ==
    \A j \in 1..Len(Attempts) :
        IsMalformedJson(Attempts[j].outcome) => j = Len(Attempts)

\* C5, amended: a body that fails to parse is handled like any other failed
\* attempt. Before the last allowed attempt the fetch does not return at it
\* and goes on to the next request; at the last allowed attempt the fetch
\* returns the empty list.
C5_MalformedJsonIsRetried ==
    \A j \in 1..Len(Attempts) :
        IsMalformedJson(Attempts[j].outcome)
            => IF j < max_retries
               THEN \/ Len(Attempts) > j
                    \/ ~FetchReturned /\ RetryPending
               ELSE Len(Attempts) = j /\ ret = EmptyList

C5_Witness ==
    /\ Len(Attempts) = 2
    /\ IsMalformedJson(Attempts[1].outcome)
    /\ IsRecordList(Attempts[2].outcome)
    /\ ret = Attempts[2].outcome.body.value

-----------------------------------------------------------------------------
(* C6 *)

\* C6 as stated: an attempt is followed by another one only if it ended in
\* a timeout, a network-level exception or a 200 with a non-JSON content
\* type.
C6_OnlyThreeOutcomesRetried ==
    \A j \in 1..Len(Attempts) :
        j < Len(Attempts) => IsSpecRetryable(Attempts[j].outcome)

\* the outcomes after which the code goes round the loop again
IsRetriedOutcome(o) ==
    \/ IsTimeout(o)
    \/ IsNetworkException(o)
    \/ IsOtherException(o)
    \/ IsNonJson200(o)
    \/ IsMalformedJson(o)
    \/ o.kind = "response" /\ o.status \notin {200, 401, 403}

\* C6, amended: an attempt before the last allowed one is followed by
\* another attempt exactly when it ended in a timeout, a network-level
\* exception, any other exception (a JSON decoding error included), a 200
\* with a non-JSON content type, or a status other than 200, 401 and 403
\* (302, 404, 500, ...). Only a parsed JSON body and a 401/403 end the loop
\* early; the last allowed attempt is never followed by another.
C6_RetriedOutcomes ==
    \A j \in 1..Len(Attempts) :
        LET followed == j < Len(Attempts) \/ (~FetchReturned /\ RetryPending)
        IN IF j < max_retries
           THEN followed <=> IsRetriedOutcome(Attempts[j].outcome)
           ELSE j = Len(Attempts) /\ FetchReturned

C6_Witness ==
    /\ Len(Attempts) = 2
    /\ HasStatus(Attempts[1].outcome, {500})
    /\ FetchReturned

-----------------------------------------------------------------------------
(* C7 *)

\* C7: an attempt answered 200 with a JSON content type whose parsed value
\* is an empty list or is not a list is the last request of the fetch, on
\* whichever attempt it occurs: the fetch has returned the empty list and
\* no sleep follows.
C7_EmptyOrNonListIsTerminal ==
    \A j \in 1..Len(Attempts) :
        IsEmptyOrNonList(Attempts[j].outcome)
            => /\ j = Len(Attempts)
               /\ ret = EmptyList
               /\ ~RetryPending
               /\ sleeps = j - 1
               /\ reqs[Len(reqs)] = Attempts[j]

C7_Witness ==
    /\ Len(Attempts) = 2
    /\ IsParsedJson(Attempts[2].outcome)
    /\ Attempts[2].outcome.body.value.t = "dict"
    /\ ret = EmptyList

-----------------------------------------------------------------------------
(* C8 *)

\* C8: _fetch_jackett_indexers never raises to its caller, whatever the
\* outcomes of the login GET, the login POST, the warm-up GET and the
\* indexer-list attempts are.
C8_NeverRaises == pc # "raised"

-----------------------------------------------------------------------------
(* C9 *)

\* a fetch is running
InFetch == pc \in {"login_get", "login_post", "warm_up", "attempt", "sleep"}

\* C9: a fetch never issues more than max_retries indexer-list requests;
\* when every attempt ended in a retried failure the fetch returns the
\* empty list after exactly max_retries requests; and every fetch that was
\* started comes to an end.
C9_BoundedAttempts ==
    /\ [](Len(Attempts) <= max_retries)
    /\ []( ( /\ FetchReturned
             /\ Attempts # <<>>
             /\ \A j \in 1..Len(Attempts) : IsSpecRetryable(Attempts[j].outcome) )
           => (Len(Attempts) = max_retries /\ ret = EmptyList) )
    /\ (InFetch ~> ~InFetch)

C9_Witness ==
    /\ FetchReturned
    /\ Len(Attempts) = max_retries
    /\ IsTimeout(Attempts[1].outcome)
    /\ IsNetworkException(Attempts[2].outcome)
    /\ ret = EmptyList
    /\ sleeps = 1

-----------------------------------------------------------------------------
(* C10 *)

\* the value the attempt outcomes alone determine: the list of the last
\* attempt when it is a non-empty JSON list, the empty list otherwise
ResultOfAttempts(a) ==
    IF a # <<>> /\ IsRecordList(a[Len(a)].outcome)
    THEN a[Len(a)].outcome.body.value
    ELSE EmptyList

\* C10: whatever the outcome of the login GET, the login POST or the
\* warm-up GET, the first indexer-list request is issued next, and a fetch
\* that got past the configuration guard ends with the result its
\* indexer-list attempts determine.
C10_SessionIsBestEffort ==
    /\ (reqs # <<>> /\ reqs[Len(reqs)].kind = "login_get")
           => pc = "login_post"
    /\ (reqs # <<>> /\ reqs[Len(reqs)].kind \in {"login_post", "warm_up"})
           => pc = "attempt"
    /\ (reqs # <<>> /\ ~InFetch)
           => /\ Attempts # <<>>
              /\ ret = ResultOfAttempts(Attempts)

-----------------------------------------------------------------------------
(* C11 *)

\* the trigger endpoint has answered
ApiAnswered == pc = "api_returned"

\* the configuration lets the endpoint start a cycle
GuardsPass == Truthy(enabled) /\ Truthy(host) /\ Truthy(api_key)

\* C11 as stated: the endpoint answers code 0 only when the cycle it started
\* logged configuration lines, and code 1 when the cycle it started failed
\* (authentication failure, retries exhausted, empty result, no record
\* formatted).
C11_CodeZeroOnlyOnSuccess ==
    ApiAnswered =>
        /\ (api_code = PyInt(0) => all_config_lines # <<>>)
        /\ (FetchReturned /\ all_config_lines = <<>> => api_code = PyInt(1))

\* C11 amended: the endpoint answers code 1, without starting a cycle,
\* exactly when the plugin is disabled or host or API key is missing; when
\* the cycle it started returns, with lines logged or not, it answers code 0;
\* when the cycle raises it answers nothing.
C11_CodeReportsTheGuards ==
    /\ ApiAnswered =>
          /\ api_code \in {PyInt(0), PyInt(1)}
          /\ (api_code = PyInt(1)) <=> ~GuardsPass
          /\ (api_code = PyInt(1)) => reqs = <<>> /\ ~FetchReturned
          /\ (api_code = PyInt(0)) => FetchReturned
    /\ (pc = "raised" /\ caller = "api") => api_code = PyNone

\* the endpoint answered code 0 after an authentication failure
C11_Witness ==
    /\ ApiAnswered
    /\ api_code = PyInt(0)
    /\ Attempts # <<>>
    /\ HasStatus(Attempts[Len(Attempts)].outcome, {401, 403})
    /\ all_config_lines = <<>>

-----------------------------------------------------------------------------
(* Vocabulary of the formatting properties *)

\* the value under key is absent or the empty str
AbsentOrEmpty(rec, key) ==
    key \notin DOMAIN rec.d \/ rec.d[key] = PyStr(<<>>)

\* the value under key is a non-empty str
NonEmptyStr(rec, key) ==
    key \in DOMAIN rec.d /\ rec.d[key].t = "str" /\ rec.d[key].s # <<>>

\* a record the formatter is to accept
ValidRecord(e) ==
    e.t = "dict" /\ NonEmptyStr(e, "id") /\ NonEmptyStr(e, "name")

\* the passes of the loop done so far
Passes == 1..Len(formatted)

\* the passes that gave a configuration object
Accepted == {i \in Passes : formatted[i].t = "dict"}

\* the source id of the record of pass i
SourceId(i) == ret.v[i].d.id.s

\* the line appended in pass i, for i in Accepted
LineOf(i) ==
    all_config_lines[Cardinality({j \in Accepted : j <= i})]

\* lower-casing and hyphen replacement on the characters source ids use
Folded(c) ==
    CASE c = "M" -> "m"
      [] c = "S" -> "s"
      [] c = CapitalEAcute -> EAcute
      [] c = "-" -> "_"
      [] OTHER -> c

FoldedId(src) == [p \in 1..Len(src) |-> Folded(src[p])]

ExpectedInternalId(src) ==
    <<"j", "a", "c", "k", "e", "t", "t", "_">> \o FoldedId(src)

\* the prefix of a line: its text before the base64 segment and the '|'
\* in front of it (base64 text holds no '|')
LinePrefix(line) ==
    LET p == CHOOSE i \in 1..Len(line) :
                 line[i] = "|" /\ \A j \in (i + 1)..Len(line) : line[j] # "|"
    IN SubSeq(line, 1, p - 1)

\* the line starts with prefix followed by '|'
StartsWith(line, prefix) ==
    /\ Len(line) > Len(prefix)
    /\ SubSeq(line, 1, Len(prefix)) = prefix
    /\ line[Len(prefix) + 1] = "|"

-----------------------------------------------------------------------------
(* C12 *)

\* C12: the formatter returns None for every record whose id is absent or
\* empty or whose name is absent or empty, and a configuration object for
\* every record whose id and name are non-empty strings.
C12_RejectsIncompleteRecords ==
    \A i \in Passes :
        /\ (AbsentOrEmpty(ret.v[i], "id") \/ AbsentOrEmpty(ret.v[i], "name"))
               => formatted[i] = PyNone
        /\ ValidRecord(ret.v[i]) => formatted[i].t = "dict"

\* a batch with a record without id and a valid record has been formatted
C12_Witness ==
    /\ pc = "log_block"
    /\ \E i \in Passes : AbsentOrEmpty(ret.v[i], "id") /\ formatted[i] = PyNone
    /\ \E i \in Passes : ValidRecord(ret.v[i]) /\ formatted[i].t = "dict"

-----------------------------------------------------------------------------
(* C13 *)

\* C13: the same record formatted twice under the same host and API key
\* gives the same object and the same line, and the internal id is
\* 'jackett_' followed by the source id lower-cased with every hyphen
\* replaced by an underscore ('My-Site' gives 'jackett_my_site').
C13_DeterministicInternalId ==
    /\ \A i, j \in Passes :
          ret.v[i] = ret.v[j] =>
              /\ formatted[i] = formatted[j]
              /\ (i \in Accepted => LineOf(i) = LineOf(j))
    /\ \A i \in Accepted :
          /\ formatted[i].d.id = ExpectedInternalId(SourceId(i))
          /\ (SourceId(i) = <<"M", "y", "-", "S", "i", "t", "e">>)
                 => formatted[i].d.id = <<"j", "a", "c", "k", "e", "t", "t", "_", "m", "y", "_", "s", "i", "t", "e">>

\* the record 'My-Site' has been formatted twice in one batch
C13_Witness ==
    /\ Len(formatted) = 2
    /\ Accepted = {1, 2}
    /\ SourceId(1) = <<"M", "y", "-", "S", "i", "t", "e">>
    /\ ret.v[1] = ret.v[2]
    /\ formatted[2].d.id = <<"j", "a", "c", "k", "e", "t", "t", "_", "m", "y", "_", "s", "i", "t", "e">>

-----------------------------------------------------------------------------
(* C14 *)

\* C14 as stated: records with distinct source ids get distinct internal
\* ids, so get lines with distinct prefixes.
C14_InternalIdInjective ==
    \A i, j \in Accepted :
        SourceId(i) # SourceId(j) =>
            /\ formatted[i].d.id # formatted[j].d.id
            /\ LinePrefix(LineOf(i)) # LinePrefix(LineOf(j))

\* C14 amended: two records get the same internal id, and lines with the
\* same prefix, exactly when their source ids are equal after lower-casing
\* and replacing every hyphen by an underscore.
C14_InjectiveUpToFolding ==
    \A i, j \in Accepted :
        /\ (formatted[i].d.id = formatted[j].d.id)
               <=> (FoldedId(SourceId(i)) = FoldedId(SourceId(j)))
        /\ (LinePrefix(LineOf(i)) = LinePrefix(LineOf(j)))
               <=> (FoldedId(SourceId(i)) = FoldedId(SourceId(j)))

\* two records of one batch with distinct source ids share an internal id
C14_Witness ==
    \E i, j \in Accepted :
        /\ SourceId(i) # SourceId(j)
        /\ formatted[i].d.id = formatted[j].d.id
        /\ LinePrefix(LineOf(i)) = LinePrefix(LineOf(j))

-----------------------------------------------------------------------------
(* C15 *)

\* C15: for every list the fetch returns, whatever its elements are, the
\* cycle does not raise, and when it has ended there is exactly one line
\* per valid record.
C15_BadRecordsAreSkipped ==
    /\ pc # "raised"
    /\ (pc \in {"init_returned", "api_returned"} /\ IsList(ret))
           => Len(all_config_lines)
                 = Cardinality({i \in 1..Len(ret.v) : ValidRecord(ret.v[i])})

-----------------------------------------------------------------------------
(* C16 *)

\* base64.b64decode, bytes.decode('utf-8'), json.loads: the standard
\* inverses, total on the texts a line can hold
IsBase64Digit(c) == \E i \in 1..64 : Base64Alphabet[i] = c

Base64Value(c) == (CHOOSE i \in 1..64 : Base64Alphabet[i] = c) - 1

IsBase64Text(s) ==
    /\ Len(s) % 4 = 0
    /\ \A i \in 1..Len(s) :
          IsBase64Digit(s[i]) \/ (s[i] = "=" /\ i > Len(s) - 2)
    /\ (Len(s) > 0 /\ s[Len(s) - 1] = "=") => s[Len(s)] = "="

\* the value of a digit; padding counts as 0
Base64Bits(c) == IF c = "=" THEN 0 ELSE Base64Value(c)

Base64Decode(s) ==
    LET pad == Cardinality({i \in 1..Len(s) : s[i] = "="})
        v(g, k) == Base64Bits(s[4 * g + k])
        ByteAt(n) ==
            LET g == (n - 1) \div 3
            IN CASE (n - 1) % 3 = 0 -> v(g, 1) * 4 + v(g, 2) \div 16
                 [] (n - 1) % 3 = 1 -> (v(g, 2) % 16) * 16 + v(g, 3) \div 4
                 [] (n - 1) % 3 = 2 -> (v(g, 3) % 4) * 64 + v(g, 4)
    IN [n \in 1..((Len(s) \div 4) * 3 - pad) |-> ByteAt(n)]

\* the character whose first byte is b[i]
Utf8CharAt(b, i) ==
    IF b[i] \in 1..Len(JsonRuns)
    THEN JsonRuns[b[i]]
    ELSE IF b[i] \in 32..126
    THEN PrintableAscii[b[i] - 31]
    ELSE IF b[i] = 195 /\ i < Len(b) /\ b[i + 1] = 169
    THEN EAcute
    ELSE IF b[i] = 195 /\ i < Len(b) /\ b[i + 1] = 137
    THEN CapitalEAcute
    ELSE "U+FFFD"

Utf8Decode(b) ==
    LET starts == SelectSeq([i \in 1..Len(b) |-> i],
                            LAMBDA i : b[i] \notin 128..191)
    IN [k \in 1..Len(starts) |-> Utf8CharAt(b, starts[k])]

At(text, p) == IF p \in 1..Len(text) THEN text[p] ELSE "EOF"

NotJson == [t |-> "error"]

\* the number of backslashes right before text[i], counted back to text[p]
BackslashesBefore(text, p, i) ==
    CHOOSE n \in 0..(i - p) :
        /\ \A k \in 1..n : text[i - k] = "\\"
        /\ n = i - p \/ text[i - n - 1] # "\\"

\* text[i] is escaped by a backslash
IsEscaped(text, p, i) == BackslashesBefore(text, p, i) % 2 = 1

\* the JSON string whose first character after the quote is text[p]
ReadString(text, p) ==
    LET closing == {q \in p..Len(text) :
                       text[q] = "\"" /\ ~IsEscaped(text, p, q)}
    IN IF closing = {}
       THEN [ok |-> FALSE, s |-> <<>>, next |-> p]
       ELSE LET q == CHOOSE c \in closing : \A d \in closing : c <= d
                kept == SelectSeq([i \in 1..(q - p) |-> p + i - 1],
                                  LAMBDA i : text[i] # "\\"
                                             \/ IsEscaped(text, p, i))
            IN [ok |-> TRUE, s |-> [k \in 1..Len(kept) |-> text[kept[k]]],
                next |-> q + 1]

\* the fixed run at text[p] and the str or null after it
ReadMember(text, p, run) ==
    IF At(text, p) # JsonRuns[run]
    THEN [ok |-> FALSE, v |-> PyNone, next |-> p]
    ELSE IF At(text, p + 1) = "\""
    THEN LET r == ReadString(text, p + 2)
         IN [ok |-> r.ok, v |-> PyStr(r.s), next |-> r.next]
    ELSE IF <<At(text, p + 1), At(text, p + 2), At(text, p + 3),
              At(text, p + 4)>> = <<"n", "u", "l", "l">>
    THEN [ok |-> TRUE, v |-> PyNone, next |-> p + 5]
    ELSE [ok |-> FALSE, v |-> PyNone, next |-> p]

JsonLoads(text) ==
    LET m1 == ReadMember(text, 1, 1)
        m2 == ReadMember(text, m1.next, 2)
        m3 == ReadMember(text, m2.next, 3)
        m4 == ReadMember(text, m3.next, 4)
        m5 == ReadMember(text, m4.next, 5)
        m6 == ReadMember(text, m5.next, 6)
    IN IF /\ m1.ok /\ m1.v.t = "str"
          /\ m2.ok /\ m2.v.t = "str"
          /\ m3.ok /\ m3.v.t = "str"
          /\ m4.ok /\ m4.v.t = "str"
          /\ m5.ok /\ m5.v.t = "str"
          /\ m6.ok
          /\ m6.next = Len(text)
          /\ text[m6.next] = JsonRuns[7]
       THEN PyDict(
              [id       |-> m1.v.s,
               name     |-> m2.v.s,
               domain   |-> m3.v.s,
               url      |-> m4.v.s,
               encoding |-> "UTF-8",
               public   |-> TRUE,
               proxy    |-> TRUE,
               language |-> "zh_CN",
               category |-> Categories,
               search   |-> [paths  |-> <<[path |-> m5.v.s,
                                           method |-> "get"]>>,
                             params |-> [t |-> "search", q |-> "{keyword}",
                                         cat |-> "{cat}", apikey |-> m6.v]],
               torrents |-> TorrentRules])
       ELSE NotJson

PipePositions(line) == {i \in 1..Len(line) : line[i] = "|"}

AfterFirstPipe(line) ==
    LET p == CHOOSE i \in PipePositions(line) :
                 \A j \in PipePositions(line) : i <= j
    IN SubSeq(line, p + 1, Len(line))

AfterLastPipe(line) ==
    LET p == CHOOSE i \in PipePositions(line) :
                 \A j \in PipePositions(line) : i >= j
    IN SubSeq(line, p + 1, Len(line))

\* base64-decode a segment and parse it as JSON
DecodeSegment(seg) ==
    IF IsBase64Text(seg)
    THEN JsonLoads(Utf8Decode(Base64Decode(seg)))
    ELSE NotJson

\* C16 as stated: for every line produced, base64-decoding the part after
\* the first '|' and parsing it as JSON gives the object that was encoded.
C16_RoundTripAfterFirstPipe ==
    \A i \in Accepted :
        DecodeSegment(AfterFirstPipe(LineOf(i))) = formatted[i]

\* C16 amended: for every line produced, base64-decoding the part after
\* the last '|' and parsing it as JSON gives the object that was encoded,
\* for every record name and id including non-ASCII ones.
C16_RoundTripAfterLastPipe ==
    \A i \in Accepted :
        DecodeSegment(AfterLastPipe(LineOf(i))) = formatted[i]

\* a record with a non-ASCII name, and one with a quote in its name, went
\* through the round trip
C16_Witness ==
    /\ pc = "log_block"
    /\ \E i \in Accepted :
          /\ \E p \in 1..Len(formatted[i].d.name) :
                 formatted[i].d.name[p] = EAcute
          /\ DecodeSegment(AfterLastPipe(LineOf(i))) = formatted[i]
    /\ \E i \in Accepted :
          /\ \E p \in 1..Len(formatted[i].d.name) :
                 formatted[i].d.name[p] = "\""
          /\ DecodeSegment(AfterLastPipe(LineOf(i))) = formatted[i]

-----------------------------------------------------------------------------
(* C17 *)

TorznabPath(src) ==
    <<"/", "a", "p", "i", "/", "v", "2", ".", "0", "/", "i", "n", "d", "e", "x", "e", "r", "s", "/">>
    \o src \o
    <<"/", "r", "e", "s", "u", "l", "t", "s", "/", "t", "o", "r", "z", "n", "a", "b">>

\* C17: for every valid record the search path of the object the line
\* encodes is '/api/v2.0/indexers/{id}/results/torznab' with the source id
\* as the service returned it, its 'apikey' is the configured API key, and
\* the line starts with the internal id followed by '|'.
C17_PathKeyAndPrefix ==
    \A i \in Passes :
        ValidRecord(ret.v[i]) =>
            /\ i \in Accepted
            /\ LET cfg == DecodeSegment(AfterLastPipe(LineOf(i)))
               IN /\ cfg.t = "dict"
                  /\ cfg.d.search.paths[1].path = TorznabPath(SourceId(i))
                  /\ cfg.d.search.params.apikey = api_key
            /\ StartsWith(LineOf(i), ExpectedInternalId(SourceId(i)))

\* the record 'My-Site' gave a line: its path keeps the capitals and the
\* hyphen that its internal id lost
C17_Witness ==
    \E i \in Accepted :
        /\ SourceId(i) = <<"M", "y", "-", "S", "i", "t", "e">>
        /\ StartsWith(LineOf(i), <<"j", "a", "c", "k", "e", "t", "t", "_", "m", "y", "_", "s", "i", "t", "e">>)
        /\ formatted[i].d.search.paths[1].path
              = TorznabPath(<<"M", "y", "-", "S", "i", "t", "e">>)

-----------------------------------------------------------------------------
(* C18 *)

\* C18: while a cycle runs no other operation changes host, API key or
\* password, and every request URL, the X-Api-Key header of every attempt
\* and every configuration object of the cycle hold one and the same host
\* and API key.
C18_OneConfigurationPerCycle ==
    /\ \A i, j \in 1..Len(reqs) : reqs[i].url_host = reqs[j].url_host
    /\ \A i, j \in 1..Len(Attempts) : Attempts[i].key = Attempts[j].key
    /\ \A i \in Accepted :
          /\ Attempts # <<>>
          /\ formatted[i].d.domain = Attempts[1].url_host
          /\ formatted[i].d.search.params.apikey = Attempts[1].key
    /\ CycleRunning => /\ host.t = "str"
                       /\ l_host = RstripChars(host.s, "/")
                       /\ api_headers = api_key

-----------------------------------------------------------------------------
(* C19 *)

\* every request of the fetch carries exactly the cookies that the earlier
\* responses of the same fetch have set: the first one carries none
JarIsOfThisFetch ==
    \A i \in 1..Len(reqs) :
        reqs[i].cookies
            = { reqs[j].kind : j \in {k \in 1..(i - 1) :
                                        reqs[k].outcome.kind = "response"} }

\* C19: no step of a fetch, from its call to its return, changes enabled,
\* host, API key or password, and every fetch starts with an empty cookie
\* jar: no cookie of an earlier invocation is sent.
C19_FetchLeavesStateUnchanged ==
    [][ /\ (InFetch \/ caller' = "fetch")
            => UNCHANGED <<enabled, host, api_key, password>>
        /\ JarIsOfThisFetch' ]_vars

\* a fetch called directly has returned after a request that carried
\* cookies; its first request carried none
C19_Witness ==
    /\ pc = "fetch_returned"
    /\ caller = "fetch"
    /\ Len(reqs) >= 2
    /\ reqs[1].cookies = {}
    /\ reqs[Len(reqs)].cookies # {}

-----------------------------------------------------------------------------
(* C20 *)

\* the kinds of the session requests issued so far, in order
SessionKinds ==
    LET s == SelectSeq(reqs, LAMBDA r : r.kind # "indexers")
    IN [i \in 1..Len(s) |-> s[i].kind]

IsPrefix(s, t) == Len(s) <= Len(t) /\ s = SubSeq(t, 1, Len(s))

\* the session negotiation is over
PastSession == pc \in {"attempt", "sleep"} \/ Attempts # <<>>

\* C20: with a password the requests are login GET, login POST, then the
\* attempts, and no warm-up; without one, a single warm-up, then the
\* attempts, and no login; the login POST follows the login GET whatever
\* became of it; no session request follows an attempt.
C20_NegotiationOrder ==
    /\ \A i, j \in 1..Len(reqs) :
          (i < j /\ reqs[i].kind = "indexers") => reqs[j].kind = "indexers"
    /\ Truthy(password)
          => /\ IsPrefix(SessionKinds, <<"login_get", "login_post">>)
             /\ PastSession => SessionKinds = <<"login_get", "login_post">>
    /\ ~Truthy(password)
          => /\ IsPrefix(SessionKinds, <<"warm_up">>)
             /\ PastSession => SessionKinds = <<"warm_up">>
    /\ (reqs # <<>> /\ reqs[1].kind = "login_get" /\ pc # "login_post")
          => (Len(reqs) >= 2 /\ reqs[2].kind = "login_post")

-----------------------------------------------------------------------------
(* C21 *)

\* an outcome after which the fetch returns at once
IsTerminalOutcome(o) == HasStatus(o, {401, 403}) \/ IsParsedJson(o)

\* C21: a sleep follows a failed attempt exactly when another attempt
\* follows it: before the n-th attempt there have been n-1 sleeps, a fetch
\* that made n attempts has slept n-1 times, no sleep follows the last
\* allowed attempt, and a terminal outcome is the last attempt, with neither
\* sleep nor request pending after it.
C21_SleepOnlyBetweenAttempts ==
    /\ Attempts = <<>> => sleeps = 0
    /\ pc = "attempt" => sleeps = Len(Attempts)
    /\ pc = "sleep" => /\ sleeps = Len(Attempts) - 1
                       /\ Len(Attempts) < max_retries
    /\ (Attempts # <<>> /\ ~RetryPending) => sleeps = Len(Attempts) - 1
    /\ \A i \in 1..Len(Attempts) :
          IsTerminalOutcome(Attempts[i].outcome)
              => (i = Len(Attempts) /\ ~RetryPending)

\* a fetch ran out of attempts: two requests, one sleep between them
C21_Witness ==
    /\ pc = "fetch_returned"
    /\ Len(Attempts) = 2
    /\ sleeps = 1
    /\ IsTimeout(Attempts[1].outcome)
    /\ IsTimeout(Attempts[2].outcome)

-----------------------------------------------------------------------------
(* C22 *)

\* a host with all its trailing '/' removed
NormalizedHost(h) ==
    LET n == CHOOSE k \in 0..Len(h) :
                 /\ k = 0 \/ h[k] # "/"
                 /\ \A j \in (k + 1)..Len(h) : h[j] = "/"
    IN SubSeq(h, 1, n)

\* the cookies the answered login and warm-up requests of the fetch set
SessionStepCookies ==
    { reqs[j].kind : j \in {k \in 1..Len(reqs) :
                              /\ reqs[k].kind # "indexers"
                              /\ reqs[k].outcome.kind = "response"} }

\* C22: every indexer-list attempt goes to
\* '{normalized host}/api/v2.0/indexers?configured=true', carries the
\* configured API key as X-Api-Key, and carries the cookies set by the
\* login or warm-up step of the same fetch.
C22_AttemptsUseHostKeyAndSession ==
    \A i \in 1..Len(reqs) :
        reqs[i].kind = "indexers" =>
            /\ host.t = "str"
            /\ reqs[i].url_host = NormalizedHost(host.s)
            /\ reqs[i].path = "/api/v2.0/indexers?configured=true"
            /\ Truthy(api_key)
            /\ reqs[i].key = api_key
            /\ SessionStepCookies \subseteq reqs[i].cookies

\* a retry after the login handshake, under a host with trailing slashes
C22_Witness ==
    /\ host = PyStr(<<"h", "/", "/">>)
    /\ Len(Attempts) = 2
    /\ Attempts[2].url_host = <<"h">>
    /\ {"login_get", "login_post"} \subseteq Attempts[2].cookies

-----------------------------------------------------------------------------
(* C23 *)

\* C23: the trigger answers code 1 and starts no cycle, with no HTTP
\* request, when the plugin is not enabled or host or API key is missing;
\* it starts a cycle only when enabled is true and both are set.
C23_TriggerGuards ==
    caller = "api" =>
        /\ ~GuardsPass => /\ ApiAnswered
                          /\ api_code = PyInt(1)
                          /\ reqs = <<>>
                          /\ ~FetchReturned
                          /\ formatted = <<>>
                          /\ log = <<>>
        /\ GuardsPass => (InFetch \/ FetchReturned \/ pc = "raised")

\* the trigger refused: the plugin is enabled, the API key is missing
C23_Witness ==
    /\ caller = "api"
    /\ ApiAnswered
    /\ Truthy(enabled)
    /\ Truthy(host)
    /\ ~Truthy(api_key)
    /\ api_code = PyInt(1)
    /\ reqs = <<>>

-----------------------------------------------------------------------------
(* C24 *)

\* the configuration holds a true or non-empty value under key
ConfigHas(config, key) ==
    /\ config.t = "dict"
    /\ config.d[key] # Absent
    /\ Truthy(config.d[key])

ConfigComplete(config) ==
    /\ ConfigHas(config, "enabled")
    /\ ConfigHas(config, "host")
    /\ ConfigHas(config, "api_key")

\* the running operation has started a fetch+format cycle
CycleStarted == InFetch \/ FetchReturned \/ reqs # <<>>

-----------------------------------------------------------------------------
(* C25 *)

\* the value the latest configuration gives for key, default when the
\* configuration or the key is absent
LatestValue(key, default) ==
    IF last_config.t = "dict" /\ last_config.d[key] # Absent
    THEN last_config.d[key]
    ELSE default

\* C25: after any sequence of init_plugin calls the four fields hold what
\* the latest configuration gives, false or unset for what it lacks;
\* get_state and the guards of the trigger answer by that configuration.
C25_FieldsReflectLatestConfig ==
    /\ enabled = LatestValue("enabled", PyBool(FALSE))
    /\ host = LatestValue("host", PyNone)
    /\ api_key = LatestValue("api_key", PyNone)
    /\ password = LatestValue("password", PyNone)
    /\ GetState = LatestValue("enabled", PyBool(FALSE))
    /\ (caller = "api" /\ ApiAnswered)
          => ((api_code = PyInt(1)) <=> ~ConfigComplete(last_config))

\* a configuration without host came after one under which a fetch got
\* cookies: the host of the earlier one is gone
C25_Witness ==
    /\ pc = "init_returned"
    /\ last_config.t = "dict"
    /\ last_config.d.enabled = PyBool(TRUE)
    /\ last_config.d.host = Absent
    /\ host = PyNone
    /\ cookies # {}

-----------------------------------------------------------------------------
(* C26 *)

\* the cycle of the running operation is over
CycleEnded == pc \in {"init_returned", "api_returned"}

\* positions of the log entries of a kind
LogPositions(kind) == {i \in 1..Len(log) : log[i].kind = kind}

\* the cycle of the running operation is over, by a return or a raise
CycleOver == CycleEnded \/ pc = "raised"

\* C26: the delimited block is logged exactly when the cycle generated a
\* line; then the start marker, every generated line once in the order of
\* the records, the end marker; with an empty fetch or no record formatted
\* no marker and no line is logged.
C26_BlockIffLines ==
    /\ (LogPositions("start") \cup LogPositions("end")
          \cup LogPositions("line") # {})
           <=> (CycleOver /\ all_config_lines # <<>>)
    /\ (CycleEnded /\ (ret = EmptyList \/ Accepted = {})) => log = <<>>
    /\ log # <<>> =>
          LET n == Len(all_config_lines)
          IN /\ n = Cardinality(Accepted)
             /\ LogPositions("start") = {2}
             /\ LogPositions("line") = 3..(n + 2)
             /\ LogPositions("end") = {n + 3}
             /\ \A k \in 1..n : log[k + 2].text = all_config_lines[k]
             /\ \A i \in Accepted :
                   DecodeSegment(AfterLastPipe(
                       log[2 + Cardinality({j \in Accepted : j <= i})].text))
                     = formatted[i]

-----------------------------------------------------------------------------
(* C27 *)

BeforeFirstPipe(line) ==
    LET p == CHOOSE i \in PipePositions(line) :
                 \A j \in PipePositions(line) : i <= j
    IN SubSeq(line, 1, p - 1)

\* the 'id' of the object a line encodes
EncodedId(line) ==
    LET cfg == DecodeSegment(AfterLastPipe(line))
    IN IF cfg.t = "dict" THEN cfg.d.id ELSE <<>>

\* the count reported at the end equals the number of lines logged
CountMatchesLines ==
    /\ output_count = Len(all_config_lines)
    /\ log # <<>> =>
          /\ log[Len(log)].kind = "total"
          /\ log[Len(log)].text = <<Cardinality(LogPositions("line"))>>
          /\ log[1].text = <<Cardinality(LogPositions("line"))>>

-----------------------------------------------------------------------------
(* C28 *)

\* a configuration object without its id, name and search path
StaticPart(cfg) ==
    [cfg EXCEPT !.id = <<>>, !.name = <<>>, !.search.paths[1].path = <<>>]

\* C28: any two objects of one cycle are equal but for id, name and search
\* path, and domain and url of each are the configured host without its
\* trailing '/', the host of the requests of the fetch.
C28_StaticFieldsAndHost ==
    /\ \A i, j \in Accepted :
          StaticPart(formatted[i].d) = StaticPart(formatted[j].d)
    /\ \A i \in Accepted :
          /\ host.t = "str"
          /\ formatted[i].d.domain = NormalizedHost(host.s)
          /\ formatted[i].d.url = NormalizedHost(host.s)
          /\ Attempts # <<>>
          /\ formatted[i].d.domain = Attempts[Len(Attempts)].url_host
          /\ formatted[i].d.search.params
                = [t |-> "search", q |-> "{keyword}", cat |-> "{cat}",
                   apikey |-> api_key]
          /\ formatted[i].d.search.paths[1].method = "get"

\* two different records were formatted under a host with trailing slashes
C28_Witness ==
    /\ host = PyStr(<<"h", "/", "/">>)
    /\ Accepted = {1, 2}
    /\ formatted[1] # formatted[2]
    /\ formatted[2].d.domain = <<"h">>
    /\ Attempts[Len(Attempts)].url_host = <<"h">>

====
